---- MODULE Spec2Model ----
(***************************************************************************)
(* Express-Jobly: the partial-update clause builder (helpers/sql.js),      *)
(* the Job model (models/job.js) that calls it and runs the statements     *)
(* against the jobs table, and the GET / list handlers of the routes.      *)
(*                                                                         *)
(* A JavaScript string is modelled as a sequence of tokens: every literal  *)
(* piece of a template string is one token and an interpolated identifier  *)
(* is one token, so that a generated statement can be split and read back. *)
(***************************************************************************)
EXTENDS Integers, Sequences, FiniteSets

VARIABLES
    dataToUpdate,   \* builder input: the field map, in iteration order
    jsToSql,        \* builder input: the translation table
    sqlResult,      \* outcome of the last builder call
    companies,      \* handles of the stored companies
    jobs,           \* the jobs table: id -> row
    nextId,         \* the SERIAL sequence of jobs.id
    prevJobs,       \* the jobs table before the last Job call
    last,           \* the last Job call: its arguments, statement and outcome
    calls,          \* number of Job calls made so far
    employees,      \* the companies table: handle -> row
    listed          \* the last GET / request: its body and its response

vars == <<dataToUpdate, jsToSql, sqlResult, companies, jobs, nextId, prevJobs, last, calls,
          employees, listed>>

(***************************************************************************)
(* Bounds                                                                  *)
(***************************************************************************)
MaxFields == 2      \* longest field map handed to the builder
MaxJobs == 2        \* ids the SERIAL sequence hands out before the model stops creating
MaxCalls == 2       \* Job calls made on a seeded database
MaxAmount == 3      \* largest salary, employee count and filter bound of a GET / request

(***************************************************************************)
(* JavaScript values                                                       *)
(***************************************************************************)
Str(s) == [tag |-> "string", s |-> s, n |-> 0]
Num(n) == [tag |-> "number", s |-> "", n |-> n]
Undefined == [tag |-> "undefined", s |-> "undefined", n |-> 0]
\* Object.prototype.constructor, as a template literal prints it
ObjectFunction == [tag |-> "function", s |-> "function Object() { [native code] }", n |-> 0]

\* property names every plain object inherits from Object.prototype
ObjectPrototype == {"constructor"}

\* obj[k] on a plain object: own property, else the prototype chain, else undefined
JsGet(obj, k) ==
    IF k \in DOMAIN obj THEN Str(obj[k])
    ELSE IF k \in ObjectPrototype THEN ObjectFunction
    ELSE Undefined

\* a string held as its characters, for the calls that look inside it
Text(chars) == [tag |-> "text", s |-> chars, n |-> 0]
True == [tag |-> "boolean", s |-> "true", n |-> 1]

\* ToBoolean
Truthy(v) ==
    CASE v.tag = "undefined" -> FALSE
      [] v.tag = "string" -> v.s # ""
      [] v.tag = "text" -> Len(v.s) > 0
      [] v.tag = "number" -> v.n # 0
      [] v.tag = "boolean" -> v.n # 0
      [] OTHER -> TRUE

\* a || b
JsOr(a, b) == IF Truthy(a) THEN a ELSE b

Digits == <<"0", "1", "2", "3", "4", "5", "6", "7", "8", "9">>

RECURSIVE Decimal(_)
\* Number.prototype.toString of a non-negative integer, one token per digit
Decimal(n) ==
    IF n < 10 THEN <<Digits[n + 1]>>
    ELSE Decimal(n \div 10) \o <<Digits[(n % 10) + 1]>>

\* `${v}` : ToString of an interpolated value
JsToString(v) == IF v.tag = "number" THEN Decimal(v.n) ELSE <<v.s>>

RECURSIVE Join(_, _)
\* Array.prototype.join on an array of strings
Join(strs, sep) ==
    IF Len(strs) = 0 THEN <<>>
    ELSE IF Len(strs) = 1 THEN strs[1]
    ELSE strs[1] \o sep \o Join(Tail(strs), sep)

(***************************************************************************)
(* helpers/sql.js                                                          *)
(***************************************************************************)
\* a field map is a sequence of entries [k, v] with distinct keys, in the
\* order Object.keys / Object.values iterate it
ObjectKeys(m) == [i \in 1..Len(m) |-> m[i].k]

ObjectValuesReversed(m) == [i \in 1..Len(m) |-> m[Len(m) + 1 - i].v]

ObjectValues(m) == [i \in 1..Len(m) |-> m[i].v]

ColFragmentZeroBased(t, colName, idx) ==
    <<"\"">> \o JsToString(JsOr(JsGet(t, colName), Str(colName))) \o <<"\"", "=", "$">> \o Decimal(idx)

ColFragmentOwnName(t, colName, idx) ==
    <<"\"">> \o JsToString(Str(colName)) \o <<"\"", "=", "$">> \o Decimal(idx + 1)

\* (colName, idx) => `"${jsToSql[colName] || colName}"=$${idx + 1}`, idx counted from 0
ColFragment(t, colName, idx) ==
    <<"\"">> \o JsToString(JsOr(JsGet(t, colName), Str(colName))) \o <<"\"", "=", "$">> \o Decimal(idx + 1)

NoDataCheckSkipped(keys) == FALSE

\* keys.length === 0
NoData(keys) == Len(keys) = 0

sqlForPartialUpdate(data, t) ==
    LET keys == ObjectKeys(data)
        cols == [i \in 1..Len(keys) |-> ColFragment(t, keys[i], i - 1)]
    IN  IF NoData(keys)
        THEN [err |-> "BadRequestError", message |-> "No data", setCols |-> <<>>, values |-> <<>>]
        ELSE [err |-> "none", message |-> "", setCols |-> Join(cols, <<", ">>), values |-> ObjectValues(data)]

(***************************************************************************)
(* Reading a generated clause back                                         *)
(***************************************************************************)
RECURSIVE SplitOn(_, _)
\* the pieces of s between the occurrences of the token sep
SplitOn(s, sep) ==
    IF \A i \in 1..Len(s) : s[i] # sep THEN <<s>>
    ELSE LET p == CHOOSE i \in 1..Len(s) : s[i] = sep /\ \A j \in 1..(i - 1) : s[j] # sep
         IN  <<SubSeq(s, 1, p - 1)>> \o SplitOn(SubSeq(s, p + 1, Len(s)), sep)

DigitValue(d) == (CHOOSE i \in 1..10 : Digits[i] = d) - 1

IsDigits(ds) == Len(ds) > 0 /\ \A i \in 1..Len(ds) : \E j \in 1..10 : Digits[j] = ds[i]

RECURSIVE ParseDecimal(_)
ParseDecimal(ds) ==
    IF Len(ds) = 0 THEN 0
    ELSE 10 * ParseDecimal(SubSeq(ds, 1, Len(ds) - 1)) + DigitValue(ds[Len(ds)])

\* a fragment has the shape  "<column>"=$<digits>
IsFragment(f) ==
    /\ Len(f) >= 6
    /\ f[1] = "\"" /\ f[3] = "\"" /\ f[4] = "=" /\ f[5] = "$"
    /\ IsDigits(SubSeq(f, 6, Len(f)))

FragmentColumn(f) == f[2]

FragmentPlaceholder(f) == ParseDecimal(SubSeq(f, 6, Len(f)))

Fragments(clause) == SplitOn(clause, ", ")

(***************************************************************************)
(* The builder called on its own: inputs drawn from bounded sets           *)
(***************************************************************************)
FieldNames == {"firstName", "companyHandle", "constructor"}

ColumnNames == {"", "first_name", "company_handle"}

FieldValues == {Str("Aliya"), Num(32)}

FieldMaps ==
    {m \in UNION {[1..n -> [k : FieldNames, v : FieldValues]] : n \in 0..MaxFields} :
        \A i, j \in 1..Len(m) : i # j => m[i].k # m[j].k}

Tables == UNION {[ks -> ColumnNames] : ks \in SUBSET FieldNames}

NotCalled == [err |-> "notcalled", message |-> "", setCols |-> <<>>, values |-> <<>>]

NoJobCall == [op |-> "none", id |-> <<>>, data |-> <<>>, err |-> "none", stmt |-> <<>>, params |-> <<>>, rows |-> {}]

NoBody == [text |-> Undefined, min |-> Undefined, max |-> Undefined, hasEquity |-> Undefined]

NoRequest == [handler |-> "none", body |-> NoBody, status |-> 0, err |-> "none", items |-> {}]

InitSql ==
    /\ dataToUpdate \in FieldMaps
    /\ jsToSql \in Tables
    /\ sqlResult = NotCalled
    /\ companies = {}
    /\ jobs = <<>>
    /\ nextId = 1
    /\ prevJobs = <<>>
    /\ last = NoJobCall
    /\ calls = 0
    /\ employees = <<>>
    /\ listed = NoRequest

CallSqlForPartialUpdate ==
    /\ sqlResult = NotCalled
    /\ sqlResult' = sqlForPartialUpdate(dataToUpdate, jsToSql)
    /\ UNCHANGED <<dataToUpdate, jsToSql, companies, jobs, nextId, prevJobs, last, calls, employees, listed>>

\* the next caller arrives with its own arguments
NextArguments ==
    /\ sqlResult # NotCalled
    /\ dataToUpdate' \in FieldMaps
    /\ jsToSql' \in Tables
    /\ sqlResult' = NotCalled
    /\ UNCHANGED <<companies, jobs, nextId, prevJobs, last, calls, employees, listed>>

NextSql == CallSqlForPartialUpdate \/ NextArguments

SpecSql == InitSql /\ [][NextSql]_vars

(***************************************************************************)
(* The jobs table and the statements models/job.js sends to it             *)
(***************************************************************************)
JobColumns == {"title", "salary", "equity", "company_handle"}

\* jobs.company_handle REFERENCES companies: the handle of a stored row names
\* a stored company
ForeignKeyHolds(table, comps) ==
    \A j \in DOMAIN table : table[j].company_handle.s \in comps

\* jobs.id is a generated integer column: a text parameter bound to it is cast
\* by the database, and a text that is no integer fails the statement
IsIntegerText(id) == IsDigits(id)

\* rows selected by  WHERE id = $1  with [id] bound
RowsWithId(table, id) == {j \in DOMAIN table : j = ParseDecimal(id)}

\* rows selected by  WHERE company_handle = $1  with [companyHandle] bound
RowsWithHandle(table, handle) == {j \in DOMAIN table : table[j].company_handle = Str(handle)}

UpdateHead == "UPDATE jobs SET "
WhereId == " WHERE id = "
Returning == " RETURNING id, title, salary, equity, company_handle AS \"companyHandle\""

\* position of the first token tok in s
IndexOf(s, tok) == CHOOSE i \in 1..Len(s) : s[i] = tok /\ \A j \in 1..(i - 1) : s[j] # tok

SetClauseOf(stmt) == SubSeq(stmt, 2, IndexOf(stmt, WhereId) - 1)

WhereExprOf(stmt) == SubSeq(stmt, IndexOf(stmt, WhereId) + 1, IndexOf(stmt, Returning) - 1)

\* the condition  id = <expr>  as the database parses the statement text
WhereIsOrTrue(expr) ==
    /\ Len(expr) >= 3
    /\ expr[Len(expr) - 1] = " OR " /\ expr[Len(expr)] = "TRUE"
    /\ IsDigits(SubSeq(expr, 1, Len(expr) - 2))

WhereWellFormed(expr) == IsDigits(expr) \/ WhereIsOrTrue(expr)

WhereMatches(expr, j) ==
    IF IsDigits(expr) THEN j = ParseDecimal(expr)
    ELSE j = ParseDecimal(SubSeq(expr, 1, Len(expr) - 2)) \/ TRUE

RECURSIVE Assign(_, _, _)
\* the row after the assignments  "<column>"=$<i>  of the SET clause
Assign(row, frags, params) ==
    IF Len(frags) = 0 THEN row
    ELSE Assign([row EXCEPT ![FragmentColumn(frags[1])] = params[FragmentPlaceholder(frags[1])]],
                Tail(frags), params)

\* the outcome of an UPDATE whose assignments give the table new
UpdateOutcome(hit, new, table, comps) ==
    IF ~ForeignKeyHolds(new, comps) THEN [err |-> "DbError", rows |-> {}, table |-> table]
    ELSE [err |-> "none", rows |-> hit, table |-> new]

\* an UPDATE with the SET clause read as frags and the condition as expr
ExecParsedUpdate(frags, expr, params, table, comps) ==
    IF ~(/\ \A i \in 1..Len(frags) :
              /\ IsFragment(frags[i])
              /\ FragmentColumn(frags[i]) \in JobColumns
              /\ FragmentPlaceholder(frags[i]) \in 1..Len(params)
         /\ WhereWellFormed(expr))
    THEN [err |-> "DbError", rows |-> {}, table |-> table]
    ELSE UpdateOutcome({j \in DOMAIN table : WhereMatches(expr, j)},
                       [j \in DOMAIN table |->
                            IF WhereMatches(expr, j) THEN Assign(table[j], frags, params) ELSE table[j]],
                       table, comps)

\* db.query(querySql, params) for an UPDATE jobs statement
ExecUpdate(stmt, params, table, comps) ==
    ExecParsedUpdate(Fragments(SetClauseOf(stmt)), WhereExprOf(stmt), params, table, comps)

(***************************************************************************)
(* models/job.js                                                           *)
(***************************************************************************)
Handles == {"ibm", "acme"}
Titles == {Str("dev"), Str("qa")}
Salaries == {Num(100), Num(200)}
Equities == {Str("0.5")}

JobRows ==
    [title : Titles, salary : Salaries, equity : Equities, company_handle : {Str(h) : h \in Handles}]

\* req.params.id: a decimal id, or any other text the client puts in the URL
IdTexts ==
    {Decimal(n) : n \in 1..(MaxJobs + 1)} \cup {<<"0", " OR ", "TRUE">>}

JobFieldValues(k) ==
    CASE k = "title" -> Titles
      [] k = "salary" -> Salaries
      [] k = "equity" -> Equities
      [] k = "companyHandle" -> {Str(h) : h \in Handles}

JobFieldNames == {"title", "salary", "equity", "companyHandle"}

JobFieldMaps ==
    {m \in UNION {[1..n -> [k : JobFieldNames, v : Titles \cup Salaries \cup Equities \cup {Str(h) : h \in Handles}]] :
                    n \in 0..MaxFields} :
        /\ \A i, j \in 1..Len(m) : i # j => m[i].k # m[j].k
        /\ \A i \in 1..Len(m) : m[i].v \in JobFieldValues(m[i].k)}

NoStatement == <<>>

Call(op, id, data, err, stmt, params, rows) ==
    [op |-> op, id |-> id, data |-> data, err |-> err, stmt |-> stmt, params |-> params, rows |-> rows]

Init ==
    /\ dataToUpdate = <<>>
    /\ jsToSql = <<>>
    /\ sqlResult = NotCalled
    /\ companies \in {{"ibm"}, {"ibm", "acme"}}
    /\ \E r \in JobRows :
          \/ jobs = <<>> /\ nextId = 1
          \/ r.company_handle.s \in companies /\ jobs = [j \in {1} |-> r] /\ nextId = 2
    /\ prevJobs = jobs
    /\ last = NoJobCall
    /\ calls = 0
    /\ employees = <<>>
    /\ listed = NoRequest

\* every Job call: remember the table it found
Called == calls < MaxCalls /\ calls' = calls + 1 /\ prevJobs' = jobs

\* static async create({ title, salary, equity, companyHandle })
JobCreate(row) ==
    /\ nextId <= MaxJobs
    /\ Called
    /\ LET companyHandleCheck == RowsWithHandle(jobs, row.company_handle.s)
           data == <<[k |-> "title", v |-> row.title], [k |-> "salary", v |-> row.salary],
                     [k |-> "equity", v |-> row.equity], [k |-> "companyHandle", v |-> row.company_handle]>>
       IN  IF companyHandleCheck = {}
           THEN /\ last' = Call("create", <<>>, data, "NotFoundError", NoStatement, <<>>, {})
                /\ UNCHANGED <<jobs, nextId>>
           ELSE /\ jobs' = [j \in DOMAIN jobs \cup {nextId} |-> IF j = nextId THEN row ELSE jobs[j]]
                /\ nextId' = nextId + 1
                /\ last' = Call("create", <<>>, data, "none", NoStatement, <<>>, {nextId})
    /\ UNCHANGED <<dataToUpdate, jsToSql, sqlResult, companies, employees, listed>>

\* static async get(id)
JobGet(id) ==
    /\ Called
    /\ last' = IF ~IsIntegerText(id)
               THEN Call("get", id, <<>>, "DbError", NoStatement, <<id>>, {})
               ELSE IF RowsWithId(jobs, id) = {}
               THEN Call("get", id, <<>>, "NotFoundError", NoStatement, <<id>>, {})
               ELSE Call("get", id, <<>>, "none", NoStatement, <<id>>, RowsWithId(jobs, id))
    /\ UNCHANGED <<dataToUpdate, jsToSql, sqlResult, companies, jobs, nextId, employees, listed>>

JobTranslation == [companyHandle |-> "company_handle"]

\* the statement text Job.update builds
UpdateStatement(setCols, id) == <<UpdateHead>> \o setCols \o <<WhereId>> \o id \o <<Returning>>

\* the parameters Job.update binds: [...values]
UpdateParams(values, id) == values

\* the rest of update once the statement has run: rows[0], NotFoundError, return
UpdateFinish(id, data, querySql, params, result) ==
    IF result.err # "none"
    THEN /\ last' = Call("update", id, data, result.err, querySql, params, {})
         /\ UNCHANGED jobs
    ELSE /\ jobs' = result.table
         /\ last' = Call("update", id, data,
                         IF result.rows = {} THEN "NotFoundError" ELSE "none",
                         querySql, params, result.rows)

\* update from the builder's result on
UpdateBuilt(id, data, built) ==
    IF built.err # "none"
    THEN /\ last' = Call("update", id, data, built.err, NoStatement, <<>>, {})
         /\ UNCHANGED jobs
    ELSE UpdateFinish(id, data, UpdateStatement(built.setCols, id), UpdateParams(built.values, id),
                      ExecUpdate(UpdateStatement(built.setCols, id), UpdateParams(built.values, id),
                                 jobs, companies))

\* static async update(id, data)
JobUpdate(id, data) ==
    /\ Called
    /\ UpdateBuilt(id, data, sqlForPartialUpdate(data, JobTranslation))
    /\ UNCHANGED <<dataToUpdate, jsToSql, sqlResult, companies, nextId, employees, listed>>

\* static async remove(id)
JobRemove(id) ==
    /\ Called
    /\ IF ~IsIntegerText(id)
       THEN /\ last' = Call("remove", id, <<>>, "DbError", NoStatement, <<id>>, {})
            /\ UNCHANGED jobs
       ELSE IF RowsWithId(jobs, id) = {}
       THEN /\ last' = Call("remove", id, <<>>, "NotFoundError", NoStatement, <<id>>, {})
            /\ UNCHANGED jobs
       ELSE /\ jobs' = [j \in DOMAIN jobs \ RowsWithId(jobs, id) |-> jobs[j]]
            /\ last' = Call("remove", id, <<>>, "none", NoStatement, <<id>>, RowsWithId(jobs, id))
    /\ UNCHANGED <<dataToUpdate, jsToSql, sqlResult, companies, nextId, employees, listed>>

Create == \E row \in JobRows : JobCreate(row)
Get == \E id \in IdTexts : JobGet(id)
Update == \E id \in IdTexts : \E data \in JobFieldMaps : JobUpdate(id, data)
Remove == \E id \in IdTexts : JobRemove(id)

Next == Create \/ Get \/ Update \/ Remove

Spec == Init /\ [][Next]_vars


Returned == sqlResult # NotCalled /\ sqlResult.err = "none"

\* the value the field map holds for key k
MapGet(m, k) == m[CHOOSE i \in 1..Len(m) : m[i].k = k].v

\* C1: for a non-empty field map the builder returns as many values as the
\* map has keys, and values[i] is the value the map holds for its i-th key.
C1_ValuesFollowKeys ==
    (sqlResult # NotCalled /\ Len(dataToUpdate) > 0) =>
        /\ sqlResult.err = "none"
        /\ Len(sqlResult.values) = Len(ObjectKeys(dataToUpdate))
        /\ \A i \in 1..Len(sqlResult.values) :
              sqlResult.values[i] = MapGet(dataToUpdate, ObjectKeys(dataToUpdate)[i])

C1_Witness ==
    /\ Returned
    /\ Len(dataToUpdate) = 2
    /\ dataToUpdate[1].v # dataToUpdate[2].v

\* C2: the clause of a non-empty field map is exactly length(m) fragments
\* joined by ", ", and the i-th fragment references placeholder $i, so the
\* placeholders are $1..$length(m) with no gap and no repeat.
C2_PlaceholdersContiguous ==
    (sqlResult # NotCalled /\ Len(dataToUpdate) > 0) =>
        LET fs == Fragments(sqlResult.setCols)
        IN  /\ Len(fs) = Len(dataToUpdate)
            /\ \A i \in 1..Len(fs) : IsFragment(fs[i]) /\ FragmentPlaceholder(fs[i]) = i
            /\ sqlResult.setCols = Join(fs, <<", ">>)

C2_Witness ==
    /\ Returned
    /\ Len(dataToUpdate) = 2
    /\ Len(Fragments(sqlResult.setCols)) = 2

\* the column the clause names for the i-th key of the field map
ClauseColumn(i) == FragmentColumn(Fragments(sqlResult.setCols)[i])

\* C3 as stated: for every key k of the field map that the translation table
\* holds, whatever it maps k to, the fragment for k names the column t[k].
C3_TranslatedWhateverTheColumn ==
    Returned =>
        \A i \in 1..Len(dataToUpdate) :
            dataToUpdate[i].k \in DOMAIN jsToSql =>
                ClauseColumn(i) = jsToSql[dataToUpdate[i].k]

\* C3 amended: for every key k of the field map that the translation table
\* maps to a non-empty column name, the fragment for k names the column
\* t[k]; a key mapped to the empty string keeps its own name.
C3_TranslatedWhenNonEmpty ==
    Returned =>
        \A i \in 1..Len(dataToUpdate) :
            dataToUpdate[i].k \in DOMAIN jsToSql =>
                ClauseColumn(i) = IF jsToSql[dataToUpdate[i].k] # ""
                                  THEN jsToSql[dataToUpdate[i].k]
                                  ELSE dataToUpdate[i].k

C3_Witness ==
    /\ Returned
    /\ \E i \in 1..Len(dataToUpdate) :
          /\ dataToUpdate[i].k \in DOMAIN jsToSql
          /\ jsToSql[dataToUpdate[i].k] = "company_handle"
          /\ ClauseColumn(i) = "company_handle"

\* C4: for every key k of the field map that the translation table does not
\* hold (the empty table included), the fragment for k names the column k.
C4_UntranslatedKeepsName ==
    Returned =>
        \A i \in 1..Len(dataToUpdate) :
            dataToUpdate[i].k \notin DOMAIN jsToSql =>
                ClauseColumn(i) = dataToUpdate[i].k

\* C5: the builder fails with BadRequestError "No data" exactly when the
\* field map is empty, then returning no clause and no values; every
\* non-empty field map returns a result, whatever the translation table.
C5_NoDataExactlyWhenEmpty ==
    sqlResult # NotCalled =>
        /\ (sqlResult.err = "BadRequestError") <=> (Len(dataToUpdate) = 0)
        /\ Len(dataToUpdate) = 0 =>
              sqlResult.message = "No data" /\ sqlResult.setCols = <<>> /\ sqlResult.values = <<>>
        /\ Len(dataToUpdate) > 0 => sqlResult.err = "none" /\ Len(sqlResult.setCols) > 0

C5_Witness ==
    /\ sqlResult # NotCalled
    /\ Len(dataToUpdate) = 0
    /\ sqlResult.err = "BadRequestError"

(***************************************************************************)
(* Claims about the Job model                                              *)
(***************************************************************************)
\* the placeholders $<i> a statement text holds, in order of appearance
RECURSIVE PlaceholdersOf(_)
PlaceholdersOf(text) ==
    IF Len(text) < 2 THEN <<>>
    ELSE IF text[1] = "$" /\ IsDigits(<<text[2]>>)
         THEN <<DigitValue(text[2])>> \o PlaceholdersOf(SubSeq(text, 3, Len(text)))
         ELSE PlaceholdersOf(Tail(text))

UpdateRan == last.op = "update" /\ last.stmt # NoStatement

\* C7: Job.update embeds the clause into UPDATE jobs SET <clause> WHERE
\* <key>=$<n+1>, n the number of updated fields, and appends the job id to
\* values as the (n+1)-th bound parameter, so every placeholder of the
\* executed statement has exactly one bound value at the matching position.
C7_WhereParameterAppended ==
    UpdateRan =>
        /\ SetClauseOf(last.stmt) = sqlForPartialUpdate(last.data, JobTranslation).setCols
        /\ WhereExprOf(last.stmt) = <<"$">> \o Decimal(Len(last.data) + 1)
        /\ Len(last.params) = Len(last.data) + 1
        /\ last.params[Len(last.data) + 1] = last.id
        /\ PlaceholdersOf(last.stmt) = [i \in 1..Len(last.params) |-> i]

\* the column a field of the update data names
ColumnOf(k) == IF k = "companyHandle" THEN "company_handle" ELSE k

\* the job the id text names
IsJob(j, id) == Decimal(j) = id

\* C8: a successful Job.update(id, data) changes only the fields named in
\* data, of the job with that id, to the supplied values; every other field
\* of that job and every other stored job is left unchanged.
C8_PartialUpdateFrame ==
    (last.op = "update" /\ last.err = "none") =>
        /\ DOMAIN jobs = DOMAIN prevJobs
        /\ \A j \in DOMAIN prevJobs :
              IF IsJob(j, last.id)
              THEN \A c \in JobColumns :
                      IF \E i \in 1..Len(last.data) : ColumnOf(last.data[i].k) = c
                      THEN jobs[j][c] = MapGet(last.data,
                                               CHOOSE k \in JobFieldNames : ColumnOf(k) = c)
                      ELSE jobs[j][c] = prevJobs[j][c]
              ELSE jobs[j] = prevJobs[j]

\* C9: Job.get(id), Job.update(id, nonEmptyData) and Job.remove(id) throw
\* NotFoundError exactly when no job with that id is stored, and a call
\* that throws NotFoundError leaves the stored jobs unchanged.
C9_NotFoundExactlyWhenAbsent ==
    (last.op \in {"get", "remove"} \/ (last.op = "update" /\ Len(last.data) > 0)) =>
        /\ (last.err = "NotFoundError") <=> ~(\E j \in DOMAIN prevJobs : IsJob(j, last.id))
        /\ last.err = "NotFoundError" => jobs = prevJobs

\* C10: Job.create throws NotFoundError and inserts nothing exactly when no
\* company with the given companyHandle exists; when the company exists, also
\* with no jobs yet, it inserts one new job with the given fields and returns
\* it with its generated id.
C10_CreateChecksCompany ==
    last.op = "create" =>
        /\ (last.err = "NotFoundError") <=> (MapGet(last.data, "companyHandle").s \notin companies)
        /\ last.err = "NotFoundError" => jobs = prevJobs
        /\ MapGet(last.data, "companyHandle").s \in companies =>
              /\ last.err = "none"
              /\ \E j \in DOMAIN jobs \ DOMAIN prevJobs :
                    /\ DOMAIN jobs = DOMAIN prevJobs \cup {j}
                    /\ last.rows = {j}
                    /\ jobs[j].title = MapGet(last.data, "title")
                    /\ jobs[j].salary = MapGet(last.data, "salary")
                    /\ jobs[j].equity = MapGet(last.data, "equity")
                    /\ jobs[j].company_handle = MapGet(last.data, "companyHandle")
              /\ \A i \in DOMAIN prevJobs : jobs[i] = prevJobs[i]

(***************************************************************************)
(* routes: GET /jobs and GET /companies with the filters of the body       *)
(***************************************************************************)
LowerChar(c) ==
    CASE c = "D" -> "d" [] c = "E" -> "e" [] c = "V" -> "v"
      [] c = "Q" -> "q" [] c = "A" -> "a" [] OTHER -> c

\* String.prototype.toLowerCase
ToLowerCase(chars) == [i \in 1..Len(chars) |-> LowerChar(chars[i])]

\* String.prototype.includes
Includes(chars, sub) ==
    \E i \in 0..(Len(chars) - Len(sub)) : SubSeq(chars, i + 1, i + Len(sub)) = sub

\* ToNumber of the text the database returns for a NUMERIC column, in tenths
NumericTextTenths(v) == CASE v.s = "0.5" -> 5 [] v.s = "1.0" -> 10 [] OTHER -> 0

Ok(items) == [status |-> 200, err |-> "none", items |-> items]

Fail(status, err) == [status |-> status, err |-> err, items |-> {}]

\* if (filtered.length === 0) throw new NotFoundError(...); return res.json(...)
FoundOr404(items) == IF items = {} THEN Fail(404, "NotFoundError") ELSE Ok(items)

\* jobs.filter((j) => j.title.toLowerCase().includes(title.toLowerCase()))
JobsWithTitle(table, title) ==
    {j \in DOMAIN table : Includes(ToLowerCase(table[j].title.s), ToLowerCase(title.s))}

\* j.salary && j.salary > minSalary && j.salary < maxSalary
JobsBetween(table, min, max) ==
    {j \in DOMAIN table :
        Truthy(table[j].salary) /\ table[j].salary.n > min.n /\ table[j].salary.n < max.n}

JobsAbove(table, min) ==
    {j \in DOMAIN table : Truthy(table[j].salary) /\ table[j].salary.n > min.n}

JobsBelow(table, max) ==
    {j \in DOMAIN table : Truthy(table[j].salary) /\ table[j].salary.n < max.n}

\* j.equity && j.equity > 0
JobsWithEquity(table) ==
    {j \in DOMAIN table : Truthy(table[j].equity) /\ NumericTextTenths(table[j].equity) > 0}

\* router.get("/") of the jobs routes, after the body passed jobFilterSchema
GetJobsResponse(table, body) ==
    IF Truthy(body.text) THEN Ok(JobsWithTitle(table, body.text))
    ELSE IF Truthy(body.min) /\ Truthy(body.max)
    THEN IF body.min.n >= body.max.n THEN Fail(400, "ExpressError")
         ELSE FoundOr404(JobsBetween(table, body.min, body.max))
    ELSE IF Truthy(body.min) THEN FoundOr404(JobsAbove(table, body.min))
    ELSE IF Truthy(body.max) THEN FoundOr404(JobsBelow(table, body.max))
    ELSE IF Truthy(body.hasEquity)
    THEN IF JobsWithEquity(table) = {}
         THEN Fail(500, "ReferenceError")     \* `${equity}`: equity is not defined
         ELSE Ok(JobsWithEquity(table))
    ELSE Ok(DOMAIN table)

\* companies.filter((c) => c.name === name)
CompaniesNamed(table, name) == {h \in DOMAIN table : table[h].name = name}

\* c.numEmployees > minEmployees && c.numEmployees < maxEmployees
CompaniesBetween(table, min, max) ==
    {h \in DOMAIN table : table[h].numEmployees.n > min.n /\ table[h].numEmployees.n < max.n}

CompaniesAbove(table, min) == {h \in DOMAIN table : table[h].numEmployees.n > min.n}

CompaniesBelow(table, max) == {h \in DOMAIN table : table[h].numEmployees.n < max.n}

\* router.get("/") of the companies routes, after the body passed companyFilterSchema
GetCompaniesResponse(table, body) ==
    IF Truthy(body.text) THEN Ok(CompaniesNamed(table, body.text))   \* !filteredCompany is never true
    ELSE IF Truthy(body.min) /\ Truthy(body.max)
    THEN IF body.min.n >= body.max.n THEN Fail(400, "ExpressError")
         ELSE FoundOr404(CompaniesBetween(table, body.min, body.max))
    ELSE IF Truthy(body.min) THEN FoundOr404(CompaniesAbove(table, body.min))
    ELSE IF Truthy(body.max) THEN FoundOr404(CompaniesBelow(table, body.max))
    ELSE Ok(DOMAIN table)

Respond(handler, body, r) ==
    [handler |-> handler, body |-> body, status |-> r.status, err |-> r.err, items |-> r.items]

Amounts == {Num(n) : n \in 0..MaxAmount}

ListedJobRows ==
    [title : {Text(<<"D", "e", "v">>), Text(<<"Q", "A">>)}, salary : Amounts,
     equity : {Str("0"), Str("0.5")}, company_handle : {Str("ibm")}]

ListedJobTables == UNION {[1..n -> ListedJobRows] : n \in 0..MaxJobs}

CompanyRows == [name : {Text(<<"I", "B", "M">>), Text(<<"A", "c", "m", "e">>)}, numEmployees : Amounts]

CompanyTables == UNION {[hs -> CompanyRows] : hs \in SUBSET Handles}

JobBodies ==
    [text : {Undefined, Text(<<"d", "E">>), Text(<<"x">>)},
     min : {Undefined} \cup Amounts, max : {Undefined} \cup Amounts, hasEquity : {Undefined, True}]

CompanyBodies ==
    [text : {Undefined, Text(<<"I", "B", "M">>), Text(<<"x">>)},
     min : {Undefined} \cup Amounts, max : {Undefined} \cup Amounts, hasEquity : {Undefined}]

InitList ==
    /\ dataToUpdate = <<>>
    /\ jsToSql = <<>>
    /\ sqlResult = NotCalled
    /\ \/ /\ jobs \in ListedJobTables
          /\ employees = [h \in {"ibm"} |-> [name |-> Text(<<"I", "B", "M">>), numEmployees |-> Num(1)]]
       \/ /\ jobs = <<>>
          /\ employees \in CompanyTables
    /\ companies = DOMAIN employees
    /\ nextId = Len(jobs) + 1
    /\ prevJobs = jobs
    /\ last = NoJobCall
    /\ calls = 0
    /\ listed = NoRequest

GetJobs ==
    /\ listed = NoRequest
    /\ \E body \in JobBodies : listed' = Respond("jobs", body, GetJobsResponse(jobs, body))
    /\ UNCHANGED <<dataToUpdate, jsToSql, sqlResult, companies, jobs, nextId, prevJobs, last, calls, employees>>

GetCompanies ==
    /\ listed = NoRequest
    /\ \E body \in CompanyBodies :
          listed' = Respond("companies", body, GetCompaniesResponse(employees, body))
    /\ UNCHANGED <<dataToUpdate, jsToSql, sqlResult, companies, jobs, nextId, prevJobs, last, calls, employees>>

NextList == GetJobs \/ GetCompanies

SpecList == InitList /\ [][NextList]_vars

Supplied(v) == v.tag # "undefined"

\* the filtered value of every stored item of the handler that answered
ListedAmounts ==
    IF listed.handler = "jobs"
    THEN [j \in DOMAIN jobs |-> jobs[j].salary.n]
    ELSE [h \in DOMAIN employees |-> employees[h].numEmployees.n]

StrictlyBetween(n) == n > listed.body.min.n /\ n < listed.body.max.n

\* C11: a GET / request for jobs or companies that supplies a minimum and a
\* maximum with minimum >= maximum fails with status 400 and returns no
\* list; with minimum < maximum every returned item has its value strictly
\* between the bounds, and when no stored item qualifies the handler fails
\* with NotFoundError instead of returning an empty list.
C11_ListBounds ==
    (listed.handler \in {"jobs", "companies"} /\ Supplied(listed.body.min) /\ Supplied(listed.body.max)) =>
        /\ listed.body.min.n >= listed.body.max.n =>
              listed.status = 400 /\ listed.items = {}
        /\ listed.body.min.n < listed.body.max.n =>
              /\ \A i \in listed.items : StrictlyBetween(ListedAmounts[i])
              /\ (\A i \in DOMAIN ListedAmounts : ~StrictlyBetween(ListedAmounts[i])) =>
                    listed.err = "NotFoundError"

====
